---- MODULE Spec2Model ----
(***************************************************************************)
(* Model of src/index.js: the helm deployment action.  One run resolves    *)
(* its inputs (action inputs overridden by the deployment object and its   *)
(* payload), registers a repository, installs plugins, deploys or removes  *)
(* a release and reports a deployment status.                              *)
(*                                                                         *)
(* JavaScript values are records [t, s, l]: t is the type tag, s the text  *)
(* of a string, number or boolean, l the elements of an array or the       *)
(* entries [k, v] of an object (in enumeration order).                     *)
(***************************************************************************)
EXTENDS Integers, Sequences, FiniteSets, TLC

\* inputs: the action inputs; deployment: context.payload.deployment;
\* kubeconfigFile: process.env.KUBECONFIG_FILE ("" when not set);
\* run: the run; twin: a second run on the same inputs (idle under Spec)
VARIABLES inputs, deployment, kubeconfigFile, run, twin

vars == <<inputs, deployment, kubeconfigFile, run, twin>>

envVars == <<inputs, deployment, kubeconfigFile>>

(***************************************************************************)
(* JavaScript values                                                       *)
(***************************************************************************)
Str(s) == [t |-> "string", s |-> s, l |-> <<>>]

Num(s) == [t |-> "number", s |-> s, l |-> <<>>]

Bool(b) == [t |-> "boolean", s |-> IF b THEN "true" ELSE "false", l |-> <<>>]

Undef == [t |-> "undefined", s |-> "", l |-> <<>>]

Null == [t |-> "null", s |-> "", l |-> <<>>]

Arr(l) == [t |-> "array", s |-> "", l |-> l]

Obj(l) == [t |-> "object", s |-> "", l |-> l]

Entry(k, v) == [k |-> k, v |-> v]

\* !!v
Truthy(v) ==
  CASE v.t = "string" -> v.s # ""
    [] v.t = "boolean" -> v.s = "true"
    [] v.t = "number" -> v.s # "0"
    [] v.t \in {"undefined", "null"} -> FALSE
    [] OTHER -> TRUE

\* a || b
Or(a, b) == IF Truthy(a) THEN a ELSE b

\* typeof v
typeOf(v) ==
  CASE v.t \in {"null", "array", "object"} -> "object"
    [] OTHER -> v.t

RECURSIVE toText(_)
RECURSIVE Join(_)
\* `${v}`
toText(v) ==
  CASE v.t \in {"string", "number", "boolean"} -> v.s
    [] v.t = "undefined" -> "undefined"
    [] v.t = "null" -> "null"
    [] v.t = "array" -> Join(v.l)
    [] OTHER -> "[object Object]"

\* Array.prototype.join(",") as used by the string conversion of an array
Join(l) ==
  IF l = <<>> THEN ""
  ELSE LET h == IF Head(l).t \in {"undefined", "null"} THEN "" ELSE toText(Head(l))
       IN  IF Len(l) = 1 THEN h ELSE h \o "," \o Join(Tail(l))

\* o[k] for a value that is neither null nor undefined
GetProp(o, k) ==
  IF o.t = "object" /\ \E i \in 1..Len(o.l) : o.l[i].k = k
  THEN o.l[CHOOSE i \in 1..Len(o.l) : o.l[i].k = k].v
  ELSE Undef

IndexStr(i) ==
  CASE i = 0 -> "0" [] i = 1 -> "1" [] i = 2 -> "2" [] i = 3 -> "3" [] OTHER -> "4"

\* the characters of the strings that reach Object.entries
Chars(s) ==
  CASE s = "" -> <<>>
    [] s = "ab" -> <<"a", "b">>
    [] OTHER -> <<s>>

\* Object.entries(v) for a value that is neither null nor undefined
ObjectEntries(v) ==
  CASE v.t = "object" -> v.l
    [] v.t = "array" -> [i \in 1..Len(v.l) |-> Entry(IndexStr(i - 1), v.l[i])]
    [] v.t = "string" ->
         [i \in 1..Len(Chars(v.s)) |-> Entry(IndexStr(i - 1), Str(Chars(v.s)[i]))]
    [] OTHER -> <<>>

\* Array.prototype.filter(f => !!f)
RECURSIVE filterTruthy(_)
filterTruthy(l) ==
  IF l = <<>> THEN <<>>
  ELSE IF Truthy(Head(l)) THEN <<Head(l)>> \o filterTruthy(Tail(l))
       ELSE filterTruthy(Tail(l))

(***************************************************************************)
(* The texts the inputs are drawn from, and JSON.parse on them.  Every     *)
(* text of the model that is valid JSON has its row; the others make       *)
(* JSON.parse throw.  Object entries are in enumeration order: integer     *)
(* keys first, then the other keys as written.                             *)
(***************************************************************************)
PluginUrlA == "https://x/y"

PluginUrlB == "https://z/w/"

JsonPluginVersioned == "[{\"url\":\"https://x/y\",\"version\":\"1.2\"}]"

JsonPluginTwo == "[\"https://x/y\",{\"url\":\"https://z/w/\"}]"

JsonPluginNoUrl == "[{\"version\":\"1.2\"},\"https://x/y\"]"

JsonPluginNull == "[null,\"https://x/y\"]"

JsonPluginNumber == "[1]"

JsonPluginObject == "{\"url\":\"https://x/y\"}"

JsonValuesAB == "{\"a\":1,\"b\":\"two\"}"

JsonValuesB2 == "{\"b\":1,\"2\":\"x\"}"

JsonFilesAB == "[\"a.yml\",\"b.yml\"]"

JsonFilesGap == "[\"b.yml\",\"\",\"a.yml\"]"

Parsed(v) == [ok |-> TRUE, v |-> v]

ParseError == [ok |-> FALSE, v |-> Undef]

JSONparse(s) ==
  CASE s = JsonPluginVersioned ->
         Parsed(Arr(<<Obj(<<Entry("url", Str(PluginUrlA)), Entry("version", Str("1.2"))>>)>>))
    [] s = JsonPluginTwo ->
         Parsed(Arr(<<Str(PluginUrlA), Obj(<<Entry("url", Str(PluginUrlB))>>)>>))
    [] s = JsonPluginNoUrl ->
         Parsed(Arr(<<Obj(<<Entry("version", Str("1.2"))>>), Str(PluginUrlA)>>))
    [] s = JsonPluginNull -> Parsed(Arr(<<Null, Str(PluginUrlA)>>))
    [] s = JsonPluginNumber -> Parsed(Arr(<<Num("1")>>))
    [] s = JsonPluginObject -> Parsed(Obj(<<Entry("url", Str(PluginUrlA))>>))
    [] s = JsonValuesAB -> Parsed(Obj(<<Entry("a", Num("1")), Entry("b", Str("two"))>>))
    [] s = JsonValuesB2 -> Parsed(Obj(<<Entry("2", Str("x")), Entry("b", Num("1"))>>))
    [] s = JsonFilesAB -> Parsed(Arr(<<Str("a.yml"), Str("b.yml")>>))
    [] s = JsonFilesGap -> Parsed(Arr(<<Str("b.yml"), Str(""), Str("a.yml")>>))
    [] s = "null" -> Parsed(Null)
    [] s = "true" -> Parsed(Bool(TRUE))
    [] s = "false" -> Parsed(Bool(FALSE))
    [] s = "5" -> Parsed(Num("5"))
    [] OTHER -> ParseError

(***************************************************************************)
(* Input names                                                             *)
(***************************************************************************)
Names ==
  {"track", "release", "namespace", "chart", "chart_version", "values", "task",
   "version", "value_files", "remove_canary", "timeout", "dry-run", "atomic",
   "helm", "repo", "repo-alias", "repo-username", "repo-password", "plugins"}

\* name.replace("_", "-"): the first underscore only; no name has two
InputKey(name) ==
  CASE name = "chart_version" -> "chart-version"
    [] name = "value_files" -> "value-files"
    [] name = "remove_canary" -> "remove-canary"
    [] OTHER -> name

InputKeys == {InputKey(n) : n \in Names}

\* core.getInput(key): the action input as a string, "" when not supplied
coreGetInput(key) == Str(inputs[key])

Returned(v) == [ok |-> TRUE, v |-> v, msg |-> ""]

Thrown(msg) == [ok |-> FALSE, v |-> Undef, msg |-> msg]

getInputLookup(name) ==
  LET val0 == coreGetInput(InputKey(name))
      val1 == IF deployment.present /\ Truthy(deployment.fields[name])
              THEN deployment.fields[name] ELSE val0
  IN  IF deployment.present /\ Truthy(deployment.payload[name])
      THEN deployment.payload[name] ELSE val1

\* getInput(name, options)
getInput(name, isRequired) ==
  LET val == getInputLookup(name)
  IN  IF isRequired /\ ~Truthy(val)
      THEN Thrown("Input required and not supplied: " \o name)
      ELSE Returned(val)

(***************************************************************************)
(* Naming, targeting and normalisation                                     *)
(***************************************************************************)
releaseName(name, track) ==
  IF track # Str("stable") THEN Str(toText(name) \o "-" \o toText(track)) ELSE name

chartName(name) == IF name = Str("app") THEN Str("/usr/src/charts/app") ELSE name

getValues(values) ==
  IF typeOf(values) = "string"
  THEN IF JSONparse(values.s).ok THEN JSONparse(values.s).v ELSE values
  ELSE values

\* the element the map callback of getPlugins returns
pluginMapped(e) ==
  IF typeOf(e) = "string" THEN Obj(<<Entry("url", e)>>)
  ELSE IF typeOf(e) = "object" THEN e
  ELSE Undef

\* the filter callback of getPlugins, !!f || typeof(f.url) == 'undefined':
\* a falsy f is null or undefined here, and reading its url throws
pluginFilterThrows(f) == ~Truthy(f) /\ f.t \in {"null", "undefined"}

pluginFilterKeeps(f) == Truthy(f) \/ typeOf(GetProp(f, "url")) = "undefined"

RECURSIVE filterPlugins(_)
filterPlugins(l) ==
  IF l = <<>> THEN <<>>
  ELSE IF pluginFilterKeeps(Head(l)) THEN <<Head(l)>> \o filterPlugins(Tail(l))
       ELSE filterPlugins(Tail(l))

getPlugins(plugins) ==
  LET pluginList ==
        IF typeOf(plugins) = "string"
        THEN IF JSONparse(plugins.s).ok THEN JSONparse(plugins.s).v ELSE Arr(<<plugins>>)
        ELSE plugins
      mapped == [i \in 1..Len(pluginList.l) |-> pluginMapped(pluginList.l[i])]
  IN  IF pluginList.t # "array" THEN Returned(Arr(<<>>))
      ELSE IF \E i \in 1..Len(mapped) : pluginFilterThrows(mapped[i])
      THEN LET first == CHOOSE i \in 1..Len(mapped) :
                          /\ pluginFilterThrows(mapped[i])
                          /\ \A j \in 1..(i - 1) : ~pluginFilterThrows(mapped[j])
           IN  Thrown("Cannot read property 'url' of " \o toText(mapped[first]))
      ELSE Returned(Arr(filterPlugins(mapped)))

getValueFiles(files) ==
  LET fileList ==
        IF typeOf(files) = "string"
        THEN IF JSONparse(files.s).ok THEN JSONparse(files.s).v ELSE Arr(<<files>>)
        ELSE files
  IN  IF fileList.t # "array" THEN Arr(<<>>) ELSE Arr(filterTruthy(fileList.l))

deleteCmd(helm, namespace, release) ==
  IF helm = Str("helm3")
  THEN <<"delete", "-n", toText(namespace), toText(release)>>
  ELSE <<"delete", "--purge", toText(release)>>

(***************************************************************************)
(* The run: its position, its locals, and what it has done so far          *)
(***************************************************************************)
ExitCodes == {0, 1}

ExitStr(e) == IF e = 0 THEN "0" ELSE "1"

NotifyOutcomes == {"ok", "error"}

pluginDir == "/root/.helm/helm/plugins/"

\* url.trim().replace(/\/+$/g, '').replace(/[:/]+/g, '-') on the plugin urls
Slug(url) ==
  CASE url = PluginUrlA -> "https-x-y"
    [] url = PluginUrlB -> "https-z-w"
    [] OTHER -> url

Unread == [t |-> "unread", s |-> "", l |-> <<>>]

NoLocals ==
  [track |-> Undef, appName |-> Undef, release |-> Undef, namespace |-> Undef,
   chart |-> Undef, chartVersion |-> Undef, values |-> Undef, task |-> Undef,
   version |-> Undef, valueFiles |-> Undef, removeCanary |-> Undef,
   timeout |-> Undef, dryRun |-> Undef, atomic |-> Undef]

\* token is the token input the run is started with
NewRun(token) ==
  [pc |-> "pending", token |-> token, kubeconfig |-> Undef, helm |-> Undef, plugins |-> <<>>, i |-> 0,
   cfg |-> [n \in Names |-> Unread], loc |-> NoLocals, args |-> <<>>,
   calls |-> <<>>, statuses |-> <<>>, failed |-> FALSE, error |-> "", log |-> <<>>]

Logged(r, level, text) == [r EXCEPT !.log = Append(@, [level |-> level, text |-> text])]

\* records what the lookups of a step returned
Resolved(r, raw) ==
  [r EXCEPT !.cfg = [n \in Names |-> IF n \in DOMAIN raw THEN raw[n] ELSE @[n]]]

\* exec.exec(bin, args, options) is issued and the process exits with e
Invoke(r, bin, args, e) ==
  [r EXCEPT !.calls = Append(@, [bin |-> bin, args |-> args, exit |-> e])]

\* exec.exec rejects on a non-zero exit code unless ignoreReturnCode is set
execThrows(ignoreReturnCode, e) == e # 0 /\ ~ignoreReturnCode

execMessage(bin, e) == "The process '" \o bin \o "' failed with exit code " \o ExitStr(e)

\* the catch block of run, up to its status call
throw(r, msg) ==
  [Logged(r, "error", msg) EXCEPT !.pc = "failure", !.failed = TRUE, !.error = msg]

\* status(state); n is what createDeploymentStatus does when it is called
status(r, state, n) ==
  IF ~Truthy(Str(r.token)) \/ ~deployment.present
  THEN [r EXCEPT !.statuses = Append(@, [state |-> state, outcome |-> "skipped"])]
  ELSE IF n = "ok"
  THEN [r EXCEPT !.statuses = Append(@, [state |-> state, outcome |-> "ok"])]
  ELSE [Logged(r, "warning", "Failed to set deployment status")
          EXCEPT !.statuses = Append(@, [state |-> state, outcome |-> "error"])]

\* stepPending with the notification outside any try: its failure is thrown
stepPendingUncaught(r, n) ==
  IF Truthy(Str(r.token)) /\ deployment.present /\ n = "error"
  THEN throw(status(r, "pending", n), "Failed to set deployment status")
  ELSE [status(r, "pending", n) EXCEPT !.pc = "setup"]

\* run: status("pending")
stepPending(r, n) == [status(r, "pending", n) EXCEPT !.pc = "setup"]

WriteOutcomes == {"ok", "error"}

\* run: the kubeconfig file, written when KUBECONFIG_FILE is set (w is what
\* writeFile does), then the tool variant
stepSetup(r, w) ==
  LET helm == getInputLookup("helm")
      r1 == IF kubeconfigFile # "" THEN [r EXCEPT !.kubeconfig = Str("./kubeconfig.yml")] ELSE r
      r2 == Resolved(r1, [x \in {"helm"} |-> helm])
  IN  IF kubeconfigFile # "" /\ w = "error"
      THEN throw(r1, "EACCES: permission denied, open './kubeconfig.yml'")
      ELSE [r2 EXCEPT !.helm = Or(helm, Str("helm3")), !.pc = "addRepo"]

\* addRepo, to its first exec
stepAddRepo(r, e) ==
  LET repo == getInputLookup("repo")
      repoAlias == getInputLookup("repo-alias")
      repoUsername == getInputLookup("repo-username")
      repoPassword == getInputLookup("repo-password")
      r1 == Resolved(r, [x \in {"repo", "repo-alias", "repo-username", "repo-password"} |->
                           getInputLookup(x)])
      args == <<"repo", "add", toText(repoAlias), toText(repo)>>
              \o (IF Truthy(repoUsername) THEN <<"--username=" \o toText(repoUsername)>> ELSE <<>>)
              \o (IF Truthy(repoPassword) THEN <<"--password=" \o toText(repoPassword)>> ELSE <<>>)
      r2 == Invoke(r1, toText(r.helm), args, e)
  IN  IF repo # Str("")
      THEN IF repoAlias = Str("")
           THEN throw(r1, "repo alias is required when you are setting a repository")
           ELSE IF execThrows(FALSE, e) THEN throw(r2, execMessage(toText(r.helm), e))
           ELSE [r2 EXCEPT !.pc = "repoUpdate"]
      ELSE [r1 EXCEPT !.pc = "installPlugins"]

\* addRepo: the index refresh
stepRepoUpdate(r, e) ==
  LET r1 == Invoke(r, toText(r.helm), <<"repo", "update">>, e)
  IN  IF execThrows(FALSE, e) THEN throw(r1, execMessage(toText(r.helm), e))
      ELSE [r1 EXCEPT !.pc = "installPlugins"]

\* the head of the loop of installPlugins: entries without a url are logged and
\* skipped; after the last entry installPlugins returns and deploy is next
RECURSIVE nextPlugin(_, _)
nextPlugin(r, i) ==
  IF i > Len(r.plugins) THEN [r EXCEPT !.i = i, !.pc = "deploy"]
  ELSE IF ~Truthy(GetProp(r.plugins[i], "url"))
  THEN nextPlugin(Logged(r, "error", "plugin.url could not be found"), i + 1)
  ELSE [r EXCEPT !.i = i, !.pc = "pluginInstall"]

\* installPlugins: the plugin list
stepInstallPlugins(r) ==
  LET raw == getInputLookup("plugins")
      got == getPlugins(raw)
      r1 == Resolved(r, [x \in {"plugins"} |-> raw])
  IN  IF ~got.ok THEN throw(r1, got.msg)
      ELSE nextPlugin([r1 EXCEPT !.plugins = got.v.l], 1)

pluginInstallArgs(plugin) ==
  <<"plugin", "install", toText(GetProp(plugin, "url"))>>
  \o (IF Truthy(GetProp(plugin, "version"))
      THEN <<"--version " \o toText(GetProp(plugin, "version"))>> ELSE <<>>)

\* stepPluginInstall with the exit code ignored by exec, as for the cleanup
stepPluginInstallIgnoring(r, e) ==
  LET r1 == Invoke(r, toText(r.helm), pluginInstallArgs(r.plugins[r.i]), e)
  IN  IF execThrows(TRUE, e) THEN throw(r1, execMessage(toText(r.helm), e))
      ELSE IF e # 0 THEN [r1 EXCEPT !.pc = "deploy"]
      ELSE [r1 EXCEPT !.pc = "pluginCleanup"]

\* installPlugins: the install of plugin i; a non-zero result that exec returns
\* instead of throwing makes installPlugins return it
stepPluginInstall(r, e) ==
  LET r1 == Invoke(r, toText(r.helm), pluginInstallArgs(r.plugins[r.i]), e)
  IN  IF execThrows(FALSE, e) THEN throw(r1, execMessage(toText(r.helm), e))
      ELSE IF e # 0 THEN [r1 EXCEPT !.pc = "deploy"]
      ELSE [r1 EXCEPT !.pc = "pluginCleanup"]

\* installPlugins: the removal of the residual directory of plugin i
stepPluginCleanup(r, e) ==
  LET clone_dir == pluginDir \o Slug(toText(GetProp(r.plugins[r.i], "url")))
      r1 == Invoke(r, "rm", <<"-rf", clone_dir>>, e)
  IN  nextPlugin(Logged(r1, "error", "ec: " \o ExitStr(e) \o ": "), r.i + 1)

(***************************************************************************)
(* deploy                                                                  *)
(***************************************************************************)
DeployNames ==
  {"track", "release", "namespace", "chart", "chart_version", "values", "task",
   "version", "value_files", "remove_canary", "timeout", "dry-run", "atomic"}

\* what deploy reads for each of its inputs: getInput, but core.getInput for dry-run
deployInput(name) ==
  IF name = "dry-run" THEN coreGetInput("dry-run") ELSE getInputLookup(name)

\* the locals of deploy, once the required inputs are there
deployLocals ==
  LET track == Or(deployInput("track"), Str("stable"))
      appName == deployInput("release")
  IN  [track |-> track,
       appName |-> appName,
       release |-> releaseName(appName, track),
       namespace |-> deployInput("namespace"),
       chart |-> chartName(deployInput("chart")),
       chartVersion |-> deployInput("chart_version"),
       values |-> getValues(deployInput("values")),
       task |-> deployInput("task"),
       version |-> deployInput("version"),
       valueFiles |-> getValueFiles(deployInput("value_files")),
       removeCanary |-> deployInput("remove_canary"),
       timeout |-> deployInput("timeout"),
       dryRun |-> deployInput("dry-run"),
       atomic |-> Or(deployInput("atomic"), Bool(TRUE))]

baseArgs(loc) ==
  <<"upgrade", toText(loc.release), toText(loc.chart), "--install", "--wait",
    "--namespace=" \o toText(loc.namespace)>>

scalarArgs(loc) ==
  (IF Truthy(loc.dryRun) THEN <<"--dry-run">> ELSE <<>>)
  \o (IF Truthy(loc.appName) THEN <<"--set=app.name=" \o toText(loc.appName)>> ELSE <<>>)
  \o (IF Truthy(loc.version) THEN <<"--set=app.version=" \o toText(loc.version)>> ELSE <<>>)
  \o (IF Truthy(loc.chartVersion) THEN <<"--version=" \o toText(loc.chartVersion)>> ELSE <<>>)
  \o (IF Truthy(loc.timeout) THEN <<"--timeout=" \o toText(loc.timeout)>> ELSE <<>>)

fileArgs(valueFiles) == [i \in 1..Len(valueFiles.l) |-> "-f " \o toText(valueFiles.l[i])]

setArgs(values) ==
  [i \in 1..Len(ObjectEntries(values)) |->
     "--set " \o ObjectEntries(values)[i].k \o "=" \o toText(ObjectEntries(values)[i].v)]

canaryArgs(track) ==
  IF track = Str("canary")
  THEN <<"--set=service.enabled=false", "--set=ingress.enabled=false">> ELSE <<>>

atomicArgs(atomic) == IF atomic = Bool(TRUE) THEN <<"--atomic">> ELSE <<>>

\* upgradeArgs with the values pushed before the value files
upgradeArgsValuesFirst(loc) ==
  baseArgs(loc) \o scalarArgs(loc) \o setArgs(loc.values) \o fileArgs(loc.valueFiles)
  \o canaryArgs(loc.track) \o atomicArgs(loc.atomic)

\* the upgrade argument vector
upgradeArgs(loc) ==
  baseArgs(loc) \o scalarArgs(loc) \o fileArgs(loc.valueFiles) \o setArgs(loc.values)
  \o canaryArgs(loc.track) \o atomicArgs(loc.atomic)

\* deploy, to its first exec: the inputs and the upgrade argument vector
stepDeploy(r) ==
  LET read(S) == Resolved(r, [x \in S |-> deployInput(x)])
      loc == deployLocals
      r1 == [read(DeployNames) EXCEPT !.loc = loc]
  IN  IF ~getInput("release", TRUE).ok
      THEN throw(read({"track", "release"}), getInput("release", TRUE).msg)
      ELSE IF ~getInput("namespace", TRUE).ok
      THEN throw(read({"track", "release", "namespace"}), getInput("namespace", TRUE).msg)
      ELSE IF ~getInput("chart", TRUE).ok
      THEN throw(read({"track", "release", "namespace", "chart"}), getInput("chart", TRUE).msg)
      ELSE IF loc.values.t \in {"null", "undefined"}
      THEN throw(r1, "Cannot convert undefined or null to object")
      ELSE [r1 EXCEPT !.args = upgradeArgs(loc),
                      !.pc = IF Truthy(loc.removeCanary) THEN "removeCanary" ELSE "primary"]

\* deploy: the removal of the canary release, its result ignored
stepRemoveCanary(r, e) ==
  LET canary == Str(toText(r.loc.appName) \o "-canary")
      r1 == Invoke(r, toText(r.helm), deleteCmd(r.helm, r.loc.namespace, canary), e)
  IN  IF execThrows(TRUE, e) THEN throw(r1, execMessage(toText(r.helm), e))
      ELSE [r1 EXCEPT !.pc = "primary"]

\* deploy: the delete or the upgrade of the release
stepPrimary(r, e) ==
  LET del == Invoke(r, toText(r.helm), deleteCmd(r.helm, r.loc.namespace, r.loc.release), e)
      upg == Invoke(r, toText(r.helm), r.args, e)
  IN  IF r.loc.task = Str("remove")
      THEN IF execThrows(TRUE, e) THEN throw(del, execMessage(toText(r.helm), e))
           ELSE [del EXCEPT !.pc = "success"]
      ELSE IF execThrows(FALSE, e) THEN throw(upg, execMessage(toText(r.helm), e))
           ELSE [upg EXCEPT !.pc = "success"]

\* run: status("success") after the last command
stepSuccess(r, n) == [status(r, "success", n) EXCEPT !.pc = "done"]

\* run: status("failure") at the end of the catch block
stepFailure(r, n) == [status(r, "failure", n) EXCEPT !.pc = "done"]

(***************************************************************************)
(* The inputs of a run.  Each family varies the inputs some part of the    *)
(* pipeline depends on and leaves the others at a plain valid              *)
(* configuration.  Structured values arrive through the deployment         *)
(* payload; action inputs are strings.                                     *)
(***************************************************************************)
MaxPlugins == 2

MaxFiles == 2

MaxValues == 2

SeqsUpTo(S, n) == UNION {[1..k -> S] : k \in 0..n}

BaseInputs ==
  [k \in InputKeys |->
     CASE k = "release" -> "web"
       [] k = "namespace" -> "prod"
       [] k = "chart" -> "app"
       [] OTHER -> ""]

NoFields == [n \in Names |-> Undef]

NoDeployment == [present |-> FALSE, fields |-> NoFields, payload |-> NoFields]

EmptyDeployment == [present |-> TRUE, fields |-> NoFields, payload |-> NoFields]

PluginTexts ==
  {"", PluginUrlA, JsonPluginVersioned, JsonPluginTwo, JsonPluginNoUrl, JsonPluginNull,
   JsonPluginNumber, JsonPluginObject}

PluginShapes ==
  {Str(PluginUrlA),
   Obj(<<Entry("url", Str(PluginUrlB))>>),
   Obj(<<Entry("url", Str(PluginUrlA)), Entry("version", Str("1.2"))>>),
   Obj(<<Entry("version", Str("1.2"))>>),
   Obj(<<Entry("url", Str(""))>>),
   Null,
   Num("1")}

FileTexts == {"", "a.yml", JsonFilesAB, JsonFilesGap, "null"}

FileShapes == {Str("a.yml"), Str("b.yml"), Str("")}

ValueTexts == {"", JsonValuesAB, JsonValuesB2, "ab", "null", "5"}

ValueObjects ==
  {Obj(l) : l \in {m \in SeqsUpTo({Entry(k, v) : k \in {"a", "b", "c"}, v \in {Num("1"), Str("two")}},
                                  MaxValues) :
                     \A i, j \in 1..Len(m) : i # j => m[i].k # m[j].k}}

\* the pipeline: required inputs, repository, plugins
InitPipeline ==
  \E missing \in {"none", "release", "namespace", "chart"},
     repo \in {"", "https://charts.example.com"},
     alias \in {"", "ex"},
     creds \in BOOLEAN,
     plugins \in PluginTexts,
     present \in BOOLEAN,
     kubeconfig \in {"", "apiVersion: v1"} :
    /\ kubeconfigFile = kubeconfig
    /\ inputs = [k \in InputKeys |->
                   CASE k = missing -> ""
                     [] k = "repo" -> repo
                     [] k = "repo-alias" -> alias
                     [] k = "repo-username" -> IF creds THEN "user" ELSE ""
                     [] k = "repo-password" -> IF creds THEN "secret" ELSE ""
                     [] k = "plugins" -> plugins
                     [] OTHER -> BaseInputs[k]]
    /\ deployment = IF present THEN EmptyDeployment ELSE NoDeployment

\* plugin lists of every shape, given in the deployment payload
InitPlugins ==
  \E list \in SeqsUpTo(PluginShapes, MaxPlugins) :
    /\ kubeconfigFile = ""
    /\ inputs = BaseInputs
    /\ deployment = [EmptyDeployment EXCEPT !.payload["plugins"] = Arr(list)]

\* deploy or remove, with or without the canary pre-cleanup
InitTask ==
  \E task \in {"", "remove"},
     canaryIn \in {"", "true", "false"},
     canaryPayload \in {Undef, Bool(TRUE), Bool(FALSE)},
     helm \in {"", "helm3", "helm"},
     track \in {"", "canary"},
     plugins \in {"", PluginUrlA} :
    /\ kubeconfigFile = ""
    /\ inputs = [BaseInputs EXCEPT !["task"] = task, !["remove-canary"] = canaryIn,
                                   !["helm"] = helm, !["track"] = track,
                                   !["plugins"] = plugins]
    /\ deployment = [EmptyDeployment EXCEPT !.payload["remove_canary"] = canaryPayload]

\* the scalar options of the upgrade command
InitFlags ==
  \E track \in {"", "stable", "canary", "beta"},
     dryRun \in {"", "true", "false"},
     version \in {"", "v1.0"},
     chartVersion \in {"", "2.0.1"},
     timeout \in {"", "5m"},
     atomicIn \in {"", "true", "false"},
     atomicPayload \in {Undef, Bool(TRUE), Bool(FALSE)} :
    /\ kubeconfigFile = ""
    /\ inputs = [BaseInputs EXCEPT !["track"] = track, !["dry-run"] = dryRun,
                                   !["version"] = version, !["chart-version"] = chartVersion,
                                   !["timeout"] = timeout, !["atomic"] = atomicIn]
    /\ deployment = IF atomicPayload = Undef THEN NoDeployment
                    ELSE [EmptyDeployment EXCEPT !.payload["atomic"] = atomicPayload]

\* value files and values, as texts or as structured payload values
InitLists ==
  \E track \in {"", "canary"},
     files \in {Str(t) : t \in FileTexts} \cup {Arr(l) : l \in SeqsUpTo(FileShapes, MaxFiles)},
     values \in {Str(t) : t \in ValueTexts} \cup ValueObjects :
    /\ kubeconfigFile = ""
    /\ inputs = [BaseInputs EXCEPT !["track"] = track, !["chart"] = "stable/nginx",
                                   !["value-files"] = IF files.t = "string" THEN files.s ELSE "",
                                   !["values"] = IF values.t = "string" THEN values.s ELSE ""]
    /\ deployment = IF files.t = "string" /\ values.t = "string" THEN NoDeployment
                    ELSE [EmptyDeployment EXCEPT
                            !.payload["value_files"] = IF files.t = "string" THEN Undef ELSE files,
                            !.payload["values"] = IF values.t = "string" THEN Undef ELSE values]

\* one input given at any of its three sources
InitPrecedence ==
  \E name \in Names, param \in {"", "c"}, field \in {Undef, Str("d")},
     payload \in {Undef, Str("p")} :
    /\ kubeconfigFile = ""
    /\ inputs = [BaseInputs EXCEPT ![InputKey(name)] = IF param = "" THEN @ ELSE param]
    /\ deployment = [EmptyDeployment EXCEPT !.fields[name] = field, !.payload[name] = payload]

Tokens == {"", "tok"}

Init ==
  /\ \/ InitPipeline
     \/ InitPlugins
     \/ InitTask
     \/ InitFlags
     \/ InitLists
     \/ InitPrecedence
  /\ \E token \in Tokens : run = NewRun(token)
  /\ twin = run

(***************************************************************************)
(* One run                                                                 *)
(***************************************************************************)
Pending ==
  /\ run.pc = "pending"
  /\ \E n \in NotifyOutcomes : run' = stepPending(run, n)
  /\ UNCHANGED <<envVars, twin>>

Setup ==
  /\ run.pc = "setup"
  /\ \E w \in WriteOutcomes : run' = stepSetup(run, w)
  /\ UNCHANGED <<envVars, twin>>

AddRepo ==
  /\ run.pc = "addRepo"
  /\ \E e \in ExitCodes : run' = stepAddRepo(run, e)
  /\ UNCHANGED <<envVars, twin>>

RepoUpdate ==
  /\ run.pc = "repoUpdate"
  /\ \E e \in ExitCodes : run' = stepRepoUpdate(run, e)
  /\ UNCHANGED <<envVars, twin>>

InstallPlugins ==
  /\ run.pc = "installPlugins"
  /\ run' = stepInstallPlugins(run)
  /\ UNCHANGED <<envVars, twin>>

PluginInstall ==
  /\ run.pc = "pluginInstall"
  /\ \E e \in ExitCodes : run' = stepPluginInstall(run, e)
  /\ UNCHANGED <<envVars, twin>>

PluginCleanup ==
  /\ run.pc = "pluginCleanup"
  /\ \E e \in ExitCodes : run' = stepPluginCleanup(run, e)
  /\ UNCHANGED <<envVars, twin>>

Deploy ==
  /\ run.pc = "deploy"
  /\ run' = stepDeploy(run)
  /\ UNCHANGED <<envVars, twin>>

RemoveCanary ==
  /\ run.pc = "removeCanary"
  /\ \E e \in ExitCodes : run' = stepRemoveCanary(run, e)
  /\ UNCHANGED <<envVars, twin>>

Primary ==
  /\ run.pc = "primary"
  /\ \E e \in ExitCodes : run' = stepPrimary(run, e)
  /\ UNCHANGED <<envVars, twin>>

Success ==
  /\ run.pc = "success"
  /\ \E n \in NotifyOutcomes : run' = stepSuccess(run, n)
  /\ UNCHANGED <<envVars, twin>>

Failure ==
  /\ run.pc = "failure"
  /\ \E n \in NotifyOutcomes : run' = stepFailure(run, n)
  /\ UNCHANGED <<envVars, twin>>

Next ==
  \/ Pending
  \/ Setup
  \/ AddRepo
  \/ RepoUpdate
  \/ InstallPlugins
  \/ PluginInstall
  \/ PluginCleanup
  \/ Deploy
  \/ RemoveCanary
  \/ Primary
  \/ Success
  \/ Failure

Spec == Init /\ [][Next]_vars

(***************************************************************************)
(* Two runs on the same inputs, whose tools exit alike step by step and    *)
(* whose notifications fare independently                                  *)
(***************************************************************************)
Step(r, e, n) ==
  CASE r.pc = "pending" -> stepPending(r, n)
    [] r.pc = "setup" -> stepSetup(r, IF e = 0 THEN "ok" ELSE "error")
    [] r.pc = "addRepo" -> stepAddRepo(r, e)
    [] r.pc = "repoUpdate" -> stepRepoUpdate(r, e)
    [] r.pc = "installPlugins" -> stepInstallPlugins(r)
    [] r.pc = "pluginInstall" -> stepPluginInstall(r, e)
    [] r.pc = "pluginCleanup" -> stepPluginCleanup(r, e)
    [] r.pc = "deploy" -> stepDeploy(r)
    [] r.pc = "removeCanary" -> stepRemoveCanary(r, e)
    [] r.pc = "primary" -> stepPrimary(r, e)
    [] r.pc = "success" -> stepSuccess(r, n)
    [] r.pc = "failure" -> stepFailure(r, n)
    [] OTHER -> r

ExecPcs == {"addRepo", "repoUpdate", "pluginInstall", "pluginCleanup", "removeCanary", "primary"}

StatusPcs == {"pending", "success", "failure"}

\* the exit codes and notification outcomes that matter to the next step of r
\* (for the setup step the code stands for what writeFile does)
ExitsAt(r) ==
  IF r.pc \in ExecPcs \/ (r.pc = "setup" /\ kubeconfigFile # "") THEN ExitCodes ELSE {0}

OutcomesAt(r) ==
  IF r.pc \in StatusPcs /\ r.token # "" /\ deployment.present THEN NotifyOutcomes ELSE {"ok"}

TwinStep ==
  /\ run.pc # "done" \/ twin.pc # "done"
  /\ \E e \in ExitsAt(run) \cup ExitsAt(twin), n1 \in OutcomesAt(run), n2 \in OutcomesAt(twin) :
       /\ run' = Step(run, e, n1)
       /\ twin' = Step(twin, e, n2)
  /\ UNCHANGED envVars

\* the twin may be started without the token, so that its notifications are skipped
InitTwin ==
  /\ \/ InitPipeline
     \/ InitPlugins
     \/ InitTask
  /\ \E t1 \in Tokens, t2 \in Tokens : run = NewRun(t1) /\ twin = NewRun(t2)

SpecTwin == InitTwin /\ [][TwinStep]_vars

(***************************************************************************)
(* Properties                                                              *)
(***************************************************************************)
Last(q) == q[Len(q)]

Range(q) == {q[i] : i \in 1..Len(q)}

StartsWith(a, prefix) == Len(a) >= Len(prefix) /\ SubSeq(a, 1, Len(prefix)) = prefix

IsPluginInstall(c) == c.bin # "rm" /\ c.args[1] = "plugin"

IsDelete(c) == c.bin # "rm" /\ c.args[1] = "delete"

IsUpgrade(c) == c.bin # "rm" /\ c.args[1] = "upgrade"

IsDeployCall(c) == IsDelete(c) \/ IsUpgrade(c)

Attempts(r, state) == Cardinality({i \in 1..Len(r.statuses) : r.statuses[i].state = state})

\* the three-tier precedence of the input resolver
Precedence(name) ==
  IF deployment.present /\ Truthy(deployment.payload[name]) THEN deployment.payload[name]
  ELSE IF deployment.present /\ Truthy(deployment.fields[name]) THEN deployment.fields[name]
  ELSE Str(inputs[InputKey(name)])

\* the values a boolean input takes when it is absent, true or false
BooleanInputs == {Str(""), Str("true"), Str("false"), Bool(TRUE)}

\* C1: once a plugin install has exited non-zero, no delete and no upgrade is
\* issued, no success status is attempted, and the finished run has attempted
\* the failure status exactly once.
C1_PluginInstallFailureIsFatal ==
  \A i \in 1..Len(run.calls) :
    (IsPluginInstall(run.calls[i]) /\ run.calls[i].exit # 0) =>
      /\ \A j \in (i + 1)..Len(run.calls) : ~IsDeployCall(run.calls[j])
      /\ Attempts(run, "success") = 0
      /\ Attempts(run, "failure") <= 1
      /\ run.pc = "done" => Attempts(run, "failure") = 1 /\ run.failed

\* a finished run whose second plugin install failed after the first succeeded
C1_Witness ==
  /\ run.pc = "done"
  /\ \E i, j \in 1..Len(run.calls) :
       /\ i < j
       /\ IsPluginInstall(run.calls[i]) /\ run.calls[i].exit = 0
       /\ IsPluginInstall(run.calls[j]) /\ run.calls[j].exit # 0

\* C2: a run that fails for a missing required input (release, namespace or
\* chart) has issued no external process invocation.
C2_MissingInputBeforeAnyCall ==
  (run.failed /\ run.error \in {"Input required and not supplied: " \o n :
                                  n \in {"release", "namespace", "chart"}})
    => run.calls = <<>>

\* C3: with task "remove", the finished run mirrors the exit code of the delete
\* of the primary release: 0 is a success with a success status, non-zero a
\* failed run with a failure status.
C3_RemoveMirrorsExitCode ==
  (run.pc = "done" /\ run.args # <<>> /\ run.loc.task = Str("remove")) =>
    /\ IsDelete(Last(run.calls))
    /\ IF Last(run.calls).exit = 0
       THEN ~run.failed /\ Last(run.statuses).state = "success"
       ELSE run.failed /\ Last(run.statuses).state = "failure"

\* C4: every input the run has read has the value the three-tier precedence
\* gives it: payload over deployment field over action input.
C4_ThreeTierPrecedence ==
  \A name \in Names : run.cfg[name] # Unread => run.cfg[name] = Precedence(name)

\* C5: the upgrade command has --atomic unless atomic is supplied as false:
\* it has it when atomic is not supplied and when it is supplied as true.
C5_AtomicUnlessFalse ==
  \A i \in 1..Len(run.calls) :
    (IsUpgrade(run.calls[i]) /\ run.cfg["atomic"] \in BooleanInputs) =>
      (("--atomic" \in Range(run.calls[i].args)) <=> run.cfg["atomic"].s # "false")

\* C6: the plugin stage fails only when a plugin install exits non-zero, never
\* for the shape of an entry, and no install is issued for an entry without a url.
C6_UrllessPluginsNeverFatal ==
  /\ (run.failed /\ run.cfg["plugins"] # Unread /\ run.cfg["track"] = Unread) =>
       (run.calls # <<>> /\ IsPluginInstall(Last(run.calls)) /\ Last(run.calls).exit # 0)
  /\ \A i \in 1..Len(run.calls) :
       IsPluginInstall(run.calls[i]) => run.calls[i].args[3] \notin {"", "undefined"}

\* the place of an argument of the upgrade command after the six base arguments
ArgRank(a) ==
  CASE a = "--dry-run" -> 1
    [] StartsWith(a, "--set=app.name=") -> 2
    [] StartsWith(a, "--set=app.version=") -> 3
    [] StartsWith(a, "--version=") -> 4
    [] StartsWith(a, "--timeout=") -> 5
    [] StartsWith(a, "-f ") -> 6
    [] StartsWith(a, "--set ") -> 7
    [] a = "--set=service.enabled=false" -> 8
    [] a = "--set=ingress.enabled=false" -> 9
    [] a = "--atomic" -> 10
    [] OTHER -> 0

IsFileArg(a) == ArgRank(a) = 6

IsSetArg(a) == ArgRank(a) = 7

\* C7: every issued upgrade vector is the six base arguments, then the scalar
\* flags, then one -f per value file in declared order, then one --set per
\* entry of values in mapping order, then the two canary flags exactly for
\* track "canary", then --atomic.
C7_UpgradeArgumentOrder ==
  \A c \in Range(run.calls) :
    IsUpgrade(c) =>
      LET a == c.args
          entries == ObjectEntries(run.loc.values)
          files == run.loc.valueFiles.l
      IN  /\ Len(a) >= 6
          /\ a[2] = toText(run.loc.release) /\ a[3] = toText(run.loc.chart)
          /\ a[4] = "--install" /\ a[5] = "--wait" /\ StartsWith(a[6], "--namespace=")
          /\ \A i \in 7..Len(a) : ArgRank(a[i]) > 0
          /\ \A i, j \in 7..Len(a) :
               i < j => \/ ArgRank(a[i]) < ArgRank(a[j])
                        \/ ArgRank(a[i]) = ArgRank(a[j]) /\ ArgRank(a[i]) \in {6, 7}
          /\ SelectSeq(SubSeq(a, 7, Len(a)), IsFileArg)
               = [i \in 1..Len(files) |-> "-f " \o toText(files[i])]
          /\ SelectSeq(SubSeq(a, 7, Len(a)), IsSetArg)
               = [i \in 1..Len(entries) |-> "--set " \o entries[i].k \o "=" \o toText(entries[i].v)]
          /\ run.loc.track = Str("canary")
               <=> {"--set=service.enabled=false", "--set=ingress.enabled=false"} \subseteq Range(a)
          /\ run.loc.track # Str("canary")
               => {"--set=service.enabled=false", "--set=ingress.enabled=false"} \cap Range(a) = {}

\* an upgrade for track canary with two value files and two values was issued
C7_Witness ==
  /\ run.calls # <<>>
  /\ IsUpgrade(Last(run.calls))
  /\ run.loc.track = Str("canary")
  /\ Len(run.loc.valueFiles.l) = 2
  /\ Len(ObjectEntries(run.loc.values)) = 2
  /\ "--atomic" \in Range(Last(run.calls).args)

\* C8: an optional input that is absent or false emits no flag: no --dry-run
\* when dry-run is not supplied or is false, and no app version, chart version
\* or timeout argument when that input is absent.
C8_FalsyOptionsEmitNoFlag ==
  \A c \in Range(run.calls) :
    IsUpgrade(c) =>
      /\ inputs["dry-run"] \in {"", "false"} => "--dry-run" \notin Range(c.args)
      /\ ~Truthy(run.cfg["version"]) => \A a \in Range(c.args) : ArgRank(a) # 3
      /\ ~Truthy(run.cfg["chart_version"]) => \A a \in Range(c.args) : ArgRank(a) # 4
      /\ ~Truthy(run.cfg["timeout"]) => \A a \in Range(c.args) : ArgRank(a) # 5

\* C9: the finished deploy stage has issued the delete of <appName>-canary,
\* once and before the primary command, exactly when removeCanary is true;
\* when it is false or absent the primary command is the only one, and only
\* the primary command decides a failure.
C9_CanaryCleanupOnlyWhenTrue ==
  (run.pc = "done" /\ run.args # <<>> /\ run.cfg["remove_canary"] \in BooleanInputs) =>
    LET dc == SelectSeq(run.calls, IsDeployCall)
        canary == Str(toText(run.loc.appName) \o "-canary")
        wanted == run.cfg["remove_canary"] \in {Str("true"), Bool(TRUE)}
    IN  /\ wanted => /\ Len(dc) = 2
                     /\ dc[1].args = deleteCmd(run.helm, run.loc.namespace, canary)
        /\ ~wanted => Len(dc) = 1
        /\ run.failed => IsUpgrade(Last(dc)) /\ Last(dc).exit # 0

\* C10: two runs on the same inputs whose tools exit alike are at the same
\* place, have issued the same invocations and have the same outcome and
\* error message, however their notifications fare.
C10_NotificationsNeverAlterControl ==
  /\ run.pc = twin.pc
  /\ run.calls = twin.calls
  /\ run.failed = twin.failed
  /\ run.error = twin.error

\* both runs are finished; one had its pending and final notifications fail,
\* the other was started without a token and skipped them
C10_Witness ==
  /\ run.pc = "done" /\ twin.pc = "done"
  /\ run.calls # <<>>
  /\ \A i \in 1..Len(run.statuses) : run.statuses[i].outcome = "error"
  /\ \A i \in 1..Len(twin.statuses) : twin.statuses[i].outcome = "skipped"

====
